---- MODULE Spec2Model ----
(***************************************************************************)
(* Model of the ratata-notes controller (src/src/main.rs) and of its       *)
(* SQLite store (src/src/db.rs).                                           *)
(*                                                                         *)
(* One behaviour is one run of App::run: the loop draws the current        *)
(* screen, reads one terminal event, classifies it with handle_key and     *)
(* applies the action with handle_action.  The store is the table `notes`  *)
(* together with the AUTOINCREMENT counter SQLite keeps for it.            *)
(***************************************************************************)
EXTENDS Integers, Sequences, FiniteSets

\* ------------------------------------------------------------------ bounds
\* Longest collection AddNote is offered on.
MaxNotes == 2
\* Largest row id the model lets the store assign.
MaxId == MaxNotes
\* Longest text an edit buffer is edited at.
MaxLen == 1
\* Largest row id present in the store file at startup.
MaxInitId == MaxNotes
\* Largest index MoveDown counts the selection up to and MoveUp counts it down from.
MaxSelected == MaxNotes

\* ------------------------------------------------------------------ values
\* Option::None of ListState::selected.
None == -1
\* usize::MAX, the value select_previous stores when nothing is selected.
\* It stands for 2^64 - 1, which only has to be larger than every length.
UsizeMax == 2147483647

\* Characters a text field is typed with.
Chars == {"a"}
\* The title add_note gives a new row: "New note".
NewNoteTitle == <<"N", "e", "w", " ", "n", "o", "t", "e">>
\* Texts the rows of the store file hold at startup.
InitTitles == {<<"a">>}
InitContents == {<<>>, <<"a">>}

KeyCodes ==
    {"q", "Esc", "j", "Down", "k", "Up", "Enter", "e", "a", "i", "d", "s",
     "Tab", "Backspace", "F1"}
CharCodes == {"q", "j", "k", "e", "a", "i", "d", "s"}
\* Codes whose release the terminal reports as well as their press.
ReleasedCodes == {"q", "Esc", "d", "a"}
\* crossterm KeyEvent: code, modifiers, kind.
KeyEvents ==
    [code : KeyCodes, modifiers : {"NONE"}, kind : {"Press"}]
        \cup [code : ReleasedCodes, modifiers : {"NONE"}, kind : {"Release"}]
        \cup [code : {"s"}, modifiers : {"CONTROL"}, kind : {"Press", "Release"}]

VARIABLES
    rows,            \* the rows of table notes: a set of Note records
    seq,             \* the AUTOINCREMENT counter: largest row id ever assigned
    items,           \* App.notes.items
    selected,        \* App.notes.state.selected()
    current_screen,  \* App.current_screen
    title_input,     \* App.title_input
    content_input,   \* App.content_input
    focused_input,   \* App.focused_input
    should_quit,     \* App.should_quit
    pc,              \* position of App::run
    action,          \* the action the event of this iteration was classified as
    session          \* history of the current Form session

vars ==
    <<rows, seq, items, selected, current_screen, title_input, content_input,
      focused_input, should_quit, pc, action, session>>

\* The controller's own state and the store.
app == <<items, selected, current_screen, title_input, content_input, focused_input, should_quit>>
db == <<rows, seq>>

\* ------------------------------------------------------------------ models.rs
Note(id, title, content) == [id |-> id, title |-> title, content |-> content]

\* ------------------------------------------------------------------ db.rs
Ids(rs) == {r.id : r \in rs}

MaxOf(S) == IF S = {} THEN 0 ELSE CHOOSE m \in S : \A x \in S : x <= m

\* INSERT into a table without AUTOINCREMENT: one more than the largest id present.
NextRowIdOfPresent(rs, sq) == MaxOf(Ids(rs)) + 1

\* INSERT into an AUTOINCREMENT table: one more than the largest id ever used.
NextRowId(rs, sq) == MaxOf(Ids(rs) \cup {sq}) + 1

\* Database::add_note: the row it inserts, which is also the Note it returns.
DbAddNote(rs, sq, title, content) == Note(NextRowId(rs, sq), title, content)

\* update_note with an UPDATE that sets the title alone.
DbUpdateRowsTitleOnly(rs, id, title, content) ==
    {IF r.id = id THEN Note(id, title, r.content) ELSE r : r \in rs}

\* Database::update_note: the table after the UPDATE.
DbUpdateRows(rs, id, title, content) ==
    {IF r.id = id THEN Note(id, title, content) ELSE r : r \in rs}

\* Database::update_note: the Note it returns.
DbUpdateNote(id, title, content) == Note(id, title, content)

\* Database::delete_note: the table after the DELETE.
DbDeleteRows(rs, id) == {r \in rs : r.id # id}

\* Database::get_all_notes: SELECT ... ORDER BY id.
RECURSIVE GetAllNotes(_)
GetAllNotes(rs) ==
    IF rs = {} THEN <<>>
    ELSE LET first == CHOOSE r \in rs : \A o \in rs : r.id <= o.id
         IN  <<first>> \o GetAllNotes(rs \ {first})

\* ------------------------------------------------------------------ tui_input::Input
Input(value, cursor) == [value |-> value, cursor |-> cursor]

\* Input::default and Input::reset.
InputDefault == Input(<<>>, 0)

\* Input::with_value: the cursor goes to the end of the value.
WithValue(value) == Input(value, Len(value))

\* Input::handle_event on a key event: only presses are turned into requests.
InputHandleEvent(input, key) ==
    IF key.kind # "Press" THEN input
    ELSE IF key.code \in CharCodes /\ key.modifiers = "NONE" THEN
        Input(SubSeq(input.value, 1, input.cursor) \o <<key.code>>
                  \o SubSeq(input.value, input.cursor + 1, Len(input.value)),
              input.cursor + 1)
    ELSE IF key.code = "Backspace" /\ key.modifiers = "NONE" /\ input.cursor > 0 THEN
        Input(SubSeq(input.value, 1, input.cursor - 1)
                  \o SubSeq(input.value, input.cursor + 1, Len(input.value)),
              input.cursor - 1)
    ELSE input

\* ------------------------------------------------------------------ ListState
\* ListState::select_next.
SelectNext(sel) ==
    IF sel = None THEN 0 ELSE IF sel = UsizeMax THEN UsizeMax ELSE sel + 1

\* select_previous with a wrapping instead of a saturating subtraction.
SelectPreviousWrapping(sel) ==
    IF sel = None \/ sel = 0 THEN UsizeMax ELSE sel - 1

\* ListState::select_previous.
SelectPrevious(sel) ==
    IF sel = None THEN UsizeMax ELSE IF sel = 0 THEN 0 ELSE sel - 1

\* What rendering the List widget does to the ListState it is handed.
ListRender(sel, len, list_area_empty) ==
    IF list_area_empty THEN sel
    ELSE IF len = 0 THEN None
    ELSE IF sel # None /\ sel >= len THEN len - 1
    ELSE sel

\* ------------------------------------------------------------------ history
\* What a Form session remembers: how and on which note Form was entered, whether
\* Save ran, the collection and the store as the entering key found them (before)
\* and the collection, the selection and the store as it left them (entry).  The
\* two snapshots are kept until the first Save, the rest until the first draw
\* after Form was left.
Snapshot == [items |-> items, selected |-> selected, rows |-> rows]
NoSnapshot == [items |-> <<>>, selected |-> None, rows |-> {}]
NoSession ==
    [via |-> "none", id |-> None, saved |-> FALSE, before |-> NoSnapshot, entry |-> NoSnapshot]

\* ------------------------------------------------------------------ main
Init ==
    /\ \E ids \in SUBSET (1 .. MaxInitId) :
         \E f \in [ids -> InitTitles \X InitContents] :
            rows = {Note(i, f[i][1], f[i][2]) : i \in ids}
    /\ seq \in MaxOf(Ids(rows)) .. MaxInitId
    /\ items = GetAllNotes(rows)
    /\ selected = IF items # <<>> THEN 0 ELSE None
    /\ current_screen = "List"
    /\ title_input = InputDefault
    /\ content_input = InputDefault
    /\ focused_input = "Title"
    /\ should_quit = FALSE
    /\ pc = "render"
    /\ action = "None"
    /\ session = NoSession

\* ------------------------------------------------------------------ App::handle_key
handle_key(screen, key) ==
    CASE screen = "List" ->
           (CASE key.code \in {"q", "Esc"} -> "Quit"
              [] key.code \in {"j", "Down"} -> "MoveDown"
              [] key.code \in {"k", "Up"} -> "MoveUp"
              [] key.code \in {"Enter", "e"} -> "SelectNote"
              [] key.code \in {"a", "i"} -> "AddNote"
              [] key.code = "d" -> "DeleteNote"
              [] OTHER -> "None")
      [] screen = "Form" ->
           (CASE key.modifiers = "CONTROL" /\ key.code = "s" -> "Save"
              [] key.code = "Tab" -> "ToggleInput"
              [] key.code = "Esc" -> "FormExit"
              [] OTHER -> "UpdateInput")
      [] screen = "ExitConfirm" ->
           (CASE key.code = "Esc" -> "Cancel"
              [] key.code = "q" -> "Confirm"
              [] OTHER -> "None")

\* The event read is a key event that handle_key classifies as `a`.
Reads(key, a) ==
    /\ pc = "read"
    /\ handle_key(current_screen, key) = a
    /\ action' = a

\* The loop goes on to the next draw.
Continue == pc' = "render"

\* ------------------------------------------------------------------ App::run
\* terminal.draw(|f| self.render(f)): render_list hands the ListState to the
\* List widget, render_form and render_exit take &self.
Render ==
    /\ pc = "render"
    /\ pc' = "read"
    /\ IF current_screen = "List"
       THEN \E list_area_empty \in BOOLEAN :
              selected' = ListRender(selected, Len(items), list_area_empty)
       ELSE selected' = selected
    /\ action' = "None"
    /\ session' = IF current_screen = "Form" THEN session ELSE NoSession
    /\ UNCHANGED <<rows, seq, items, current_screen, title_input, content_input,
                   focused_input, should_quit>>

\* An event that is not a key event (a resize, a mouse event): no action.
NonKeyEvent ==
    /\ pc = "read"
    /\ action' = "None"
    /\ Continue
    /\ UNCHANGED <<app, db, session>>

\* A key handle_key maps to no action.
UnmappedOn(key) ==
    /\ Reads(key, "None")
    /\ Continue
    /\ UNCHANGED <<app, db, session>>

Unmapped ==
    /\ pc = "read"
    /\ \E key \in KeyEvents : UnmappedOn(key)

\* ------------------------------------------------------------------ App::handle_action, List
\* The process panics: an index out of bounds or an unwrap of a store error.
Panic == pc' = "panicked"

\* ListAction::Quit that ends the loop without asking.
ListQuitOnImmediately(key) ==
    /\ Reads(key, "Quit")
    /\ should_quit' = TRUE
    /\ pc' = "done"
    /\ UNCHANGED <<items, selected, current_screen, title_input, content_input,
                   focused_input, db, session>>

\* ListAction::Quit.
ListQuitOn(key) ==
    /\ Reads(key, "Quit")
    /\ current_screen' = "ExitConfirm"
    /\ Continue
    /\ UNCHANGED <<items, selected, title_input, content_input, focused_input,
                   should_quit, db, session>>

ListQuit ==
    /\ pc = "read"
    /\ current_screen = "List"
    /\ \E key \in KeyEvents : ListQuitOn(key)

\* ListAction::MoveUp.
ListMoveUpOn(key) ==
    /\ Reads(key, "MoveUp")
    /\ selected <= MaxSelected
    /\ selected' = SelectPrevious(selected)
    /\ Continue
    /\ UNCHANGED <<items, current_screen, title_input, content_input, focused_input,
                   should_quit, db, session>>

ListMoveUp ==
    /\ pc = "read"
    /\ current_screen = "List"
    /\ \E key \in KeyEvents : ListMoveUpOn(key)

\* ListAction::MoveDown.
ListMoveDownOn(key) ==
    /\ Reads(key, "MoveDown")
    /\ selected = UsizeMax \/ selected < MaxSelected
    /\ selected' = SelectNext(selected)
    /\ Continue
    /\ UNCHANGED <<items, current_screen, title_input, content_input, focused_input,
                   should_quit, db, session>>

ListMoveDown ==
    /\ pc = "read"
    /\ current_screen = "List"
    /\ \E key \in KeyEvents : ListMoveDownOn(key)

\* add_note with the new note put first instead of pushed.
AddNoteItemsFront(its, new_note) == <<new_note>> \o its

\* App::add_note: the collection after the push.
AddNoteItems(its, new_note) == Append(its, new_note)

\* add_note selecting the length instead of the last index.
AddNoteSelectedLen(its) == Len(its)

\* App::add_note: the selection after the push.
AddNoteSelected(its) == Len(its) - 1

\* ListAction::AddNote: add_note, reset of both inputs, Form.
ListAddNoteOn(key) ==
    \E ok \in BOOLEAN :
        /\ Reads(key, "AddNote")
        /\ NextRowId(rows, seq) <= MaxId
        /\ Len(items) < MaxNotes
        /\ IF ok
           THEN LET new_note == DbAddNote(rows, seq, NewNoteTitle, <<>>)
                IN  /\ rows' = rows \cup {new_note}
                    /\ seq' = new_note.id
                    /\ items' = AddNoteItems(items, new_note)
                    /\ selected' = AddNoteSelected(items')
                    /\ title_input' = InputDefault
                    /\ content_input' = InputDefault
                    /\ current_screen' = "Form"
                    /\ session' = [via |-> "AddNote", id |-> new_note.id, saved |-> FALSE,
                                   before |-> Snapshot,
                                   entry |-> [items |-> items', selected |-> selected',
                                              rows |-> rows']]
                    /\ Continue
                    /\ UNCHANGED <<focused_input, should_quit>>
           ELSE \* db.add_note(..).unwrap() on an Err
                /\ Panic
                /\ UNCHANGED <<app, db, session>>

ListAddNote ==
    /\ pc = "read"
    /\ current_screen = "List"
    /\ \E key \in KeyEvents : ListAddNoteOn(key)

\* Vec::pop in place of Vec::remove(index).
RemoveLast(its, index) == SubSeq(its, 1, Len(its) - 1)

\* Vec::remove(index).
Remove(its, index) == SubSeq(its, 1, index) \o SubSeq(its, index + 2, Len(its))

\* App::delete_note: the selection after the removal.
DeleteNoteSelected(sel, selected_index) ==
    IF selected_index # 0 THEN selected_index - 1 ELSE sel

\* delete_note that removes the note from the collection before the store call.
ListDeleteNoteOnCacheFirst(key) ==
    \E ok \in BOOLEAN :
        /\ Reads(key, "DeleteNote")
        /\ IF selected = None
           THEN /\ Continue
                /\ UNCHANGED <<app, db, session>>
           ELSE IF selected >= Len(items)
           THEN /\ Panic
                /\ UNCHANGED <<app, db, session>>
           ELSE /\ items' = SubSeq(items, 1, selected) \o SubSeq(items, selected + 2, Len(items))
                /\ selected' = IF selected # 0 THEN selected - 1 ELSE selected
                /\ IF ok
                   THEN rows' = DbDeleteRows(rows, items[selected + 1].id) /\ Continue
                   ELSE UNCHANGED rows /\ Panic
                /\ UNCHANGED <<seq, current_screen, title_input, content_input,
                               focused_input, should_quit, session>>

\* ListAction::DeleteNote: delete_note.
ListDeleteNoteOn(key) ==
    \E ok \in BOOLEAN :
        /\ Reads(key, "DeleteNote")
        /\ IF selected = None
           THEN /\ Continue
                /\ UNCHANGED <<app, db, session>>
           ELSE IF selected >= Len(items)
           THEN \* self.notes.items[selected_index] out of bounds
                /\ Panic
                /\ UNCHANGED <<app, db, session>>
           ELSE IF ok
           THEN /\ rows' = DbDeleteRows(rows, items[selected + 1].id)
                /\ items' = Remove(items, selected)
                /\ selected' = DeleteNoteSelected(selected, selected)
                /\ Continue
                /\ UNCHANGED <<seq, current_screen, title_input, content_input,
                               focused_input, should_quit, session>>
           ELSE \* db.delete_note(..).unwrap() on an Err
                /\ Panic
                /\ UNCHANGED <<app, db, session>>

ListDeleteNote ==
    /\ pc = "read"
    /\ current_screen = "List"
    /\ \E key \in KeyEvents : ListDeleteNoteOn(key)

\* ListAction::SelectNote: Form first, then the inputs from the selected note.
ListSelectNoteOn(key) ==
    /\ Reads(key, "SelectNote")
    /\ current_screen' = "Form"
    /\ IF selected = None
       THEN /\ Continue
            /\ session' = [via |-> "SelectNote", id |-> None, saved |-> FALSE,
                           before |-> Snapshot, entry |-> Snapshot]
            /\ UNCHANGED <<title_input, content_input>>
       ELSE IF selected >= Len(items)
       THEN \* self.notes.items[index] out of bounds
            /\ Panic
            /\ UNCHANGED <<title_input, content_input, session>>
       ELSE LET current_note == items[selected + 1]
            IN  /\ title_input' = WithValue(current_note.title)
                /\ content_input' = WithValue(current_note.content)
                /\ session' = [via |-> "SelectNote", id |-> current_note.id,
                               saved |-> FALSE, before |-> Snapshot, entry |-> Snapshot]
                /\ Continue
    /\ UNCHANGED <<items, selected, focused_input, should_quit, db>>

ListSelectNote ==
    /\ pc = "read"
    /\ current_screen = "List"
    /\ \E key \in KeyEvents : ListSelectNoteOn(key)

\* ------------------------------------------------------------------ App::handle_action, Form
\* save_note that assigns the updated note to the first slot of the collection.
SaveNoteItemsFirst(its, selected_index, updated_note) ==
    [its EXCEPT ![1] = updated_note]

\* App::save_note: the collection after the assignment to items[selected_index].
SaveNoteItems(its, selected_index, updated_note) ==
    [its EXCEPT ![selected_index + 1] = updated_note]

\* FormAction::Save: save_note.
FormSaveOn(key) ==
    \E ok \in BOOLEAN :
        /\ Reads(key, "Save")
        /\ IF selected = None
           THEN /\ Continue
                /\ UNCHANGED <<app, db, session>>
           ELSE IF selected >= Len(items)
           THEN \* self.notes.items[selected_index] out of bounds
                /\ Panic
                /\ UNCHANGED <<app, db, session>>
           ELSE IF ok
           THEN LET id == items[selected + 1].id
                IN  /\ rows' = DbUpdateRows(rows, id, title_input.value, content_input.value)
                    /\ items' = SaveNoteItems(items, selected,
                                    DbUpdateNote(id, title_input.value, content_input.value))
                    /\ session' = [session EXCEPT !.saved = TRUE, !.before = NoSnapshot,
                                                  !.entry = NoSnapshot]
                    /\ Continue
                    /\ UNCHANGED <<seq, selected, current_screen, title_input, content_input,
                                   focused_input, should_quit>>
           ELSE \* db.update_note(..).unwrap() on an Err
                /\ Panic
                /\ UNCHANGED <<app, db, session>>

FormSave ==
    /\ pc = "read"
    /\ current_screen = "Form"
    /\ \E key \in KeyEvents : FormSaveOn(key)

\* toggle_input that always moves the focus to the content input.
toggle_inputToContent(focused) == "Content"

\* App::toggle_input.
toggle_input(focused) == IF focused = "Title" THEN "Content" ELSE "Title"

\* FormAction::ToggleInput.
FormToggleInputOn(key) ==
    /\ Reads(key, "ToggleInput")
    /\ focused_input' = toggle_input(focused_input)
    /\ Continue
    /\ UNCHANGED <<items, selected, current_screen, title_input, content_input,
                   should_quit, db, session>>

FormToggleInput ==
    /\ pc = "read"
    /\ current_screen = "Form"
    /\ \E key \in KeyEvents : FormToggleInputOn(key)

\* The edits the model offers: typed characters from Chars, texts up to MaxLen.
Offered(input, key) ==
    \/ key.kind # "Press"
    \/ key.code \notin CharCodes \cup {"Backspace"}
    \/ key.code = "Backspace" /\ Len(input.value) <= MaxLen
    \/ key.code \in Chars /\ Len(input.value) < MaxLen

\* FormAction::UpdateInput: the event goes to the focused input.
FormUpdateInputOn(key) ==
    /\ Reads(key, "UpdateInput")
    /\ IF focused_input = "Title"
       THEN /\ Offered(title_input, key)
            /\ title_input' = InputHandleEvent(title_input, key)
            /\ UNCHANGED content_input
       ELSE /\ Offered(content_input, key)
            /\ content_input' = InputHandleEvent(content_input, key)
            /\ UNCHANGED title_input
    /\ Continue
    /\ UNCHANGED <<items, selected, current_screen, focused_input, should_quit, db,
                   session>>

FormUpdateInput ==
    /\ pc = "read"
    /\ current_screen = "Form"
    /\ \E key \in KeyEvents : FormUpdateInputOn(key)

\* FormAction::Exit that writes the inputs to the selected note before leaving.
FormExitOnSaving(key) ==
    /\ Reads(key, "FormExit")
    /\ current_screen' = "List"
    /\ IF selected \in 0 .. Len(items) - 1
       THEN LET id == items[selected + 1].id
            IN  /\ rows' = DbUpdateRows(rows, id, title_input.value, content_input.value)
                /\ items' = [items EXCEPT ![selected + 1] =
                                 DbUpdateNote(id, title_input.value, content_input.value)]
       ELSE UNCHANGED <<rows, items>>
    /\ Continue
    /\ UNCHANGED <<seq, selected, title_input, content_input, focused_input,
                   should_quit, session>>

\* FormAction::Exit.
FormExitOn(key) ==
    /\ Reads(key, "FormExit")
    /\ current_screen' = "List"
    /\ Continue
    /\ UNCHANGED <<items, selected, title_input, content_input, focused_input,
                   should_quit, db, session>>

FormExit ==
    /\ pc = "read"
    /\ current_screen = "Form"
    /\ \E key \in KeyEvents : FormExitOn(key)

\* ------------------------------------------------------------------ App::handle_action, Exit
\* ExitAction::Confirm: the loop condition ends the run.
ExitConfirmOn(key) ==
    /\ Reads(key, "Confirm")
    /\ should_quit' = TRUE
    /\ pc' = "done"
    /\ UNCHANGED <<items, selected, current_screen, title_input, content_input,
                   focused_input, db, session>>

ExitConfirm ==
    /\ pc = "read"
    /\ current_screen = "ExitConfirm"
    /\ \E key \in KeyEvents : ExitConfirmOn(key)

\* ExitAction::Cancel.
ExitCancelOn(key) ==
    /\ Reads(key, "Cancel")
    /\ current_screen' = "List"
    /\ Continue
    /\ UNCHANGED <<items, selected, title_input, content_input, focused_input,
                   should_quit, db, session>>

ExitCancel ==
    /\ pc = "read"
    /\ current_screen = "ExitConfirm"
    /\ \E key \in KeyEvents : ExitCancelOn(key)

Next ==
    \/ Render
    \/ NonKeyEvent
    \/ Unmapped
    \/ ListQuit
    \/ ListMoveUp
    \/ ListMoveDown
    \/ ListAddNote
    \/ ListDeleteNote
    \/ ListSelectNote
    \/ FormSave
    \/ FormToggleInput
    \/ FormUpdateInput
    \/ FormExit
    \/ ExitConfirm
    \/ ExitCancel

Spec == Init /\ [][Next]_vars

\* The step App::run takes when the event it reads is the key event `key`.
KeyStep(key) ==
    LET a == handle_key(current_screen, key)
    IN  CASE a = "None" -> UnmappedOn(key)
          [] a = "Quit" -> ListQuitOn(key)
          [] a = "MoveUp" -> ListMoveUpOn(key)
          [] a = "MoveDown" -> ListMoveDownOn(key)
          [] a = "AddNote" -> ListAddNoteOn(key)
          [] a = "DeleteNote" -> ListDeleteNoteOn(key)
          [] a = "SelectNote" -> ListSelectNoteOn(key)
          [] a = "Save" -> FormSaveOn(key)
          [] a = "ToggleInput" -> FormToggleInputOn(key)
          [] a = "UpdateInput" -> FormUpdateInputOn(key)
          [] a = "FormExit" -> FormExitOn(key)
          [] a = "Confirm" -> ExitConfirmOn(key)
          [] a = "Cancel" -> ExitCancelOn(key)

\* ================================================================== properties
\* The selection is an index into the collection.
ValidIndex == selected \in 0 .. Len(items) - 1

\* A key was applied by this step and the loop goes on to the next draw.
Applied(a) == pc = "read" /\ action' = a /\ pc' = "render"

\* ------------------------------------------------------------------ C1
\* C1: in every reachable state the selection is a valid index when the
\* collection is non-empty, and 'none' when it is empty.
C1_SelectionValid == IF items = <<>> THEN selected = None ELSE ValidIndex

\* ------------------------------------------------------------------ C2
\* C2: after any sequence of AddNote, Save and DeleteNote the in-memory
\* collection is the sequence get_all_notes returns for the store: same ids,
\* titles and contents, in ascending id order.
C2_CacheMatchesStore == items = GetAllNotes(rows)

\* A note was added, a note was saved with an emptied title, and a note was
\* deleted: the added note's title went through the title input.
C2_Witness ==
    /\ pc = "render"
    /\ action = "DeleteNote"
    /\ Len(items) = 1
    /\ items[1].title = <<>>
    /\ title_input.value = NewNoteTitle

C4_DeleteReclamp ==
    [][(current_screen = "List" /\ ValidIndex /\ Applied("DeleteNote"))
        => /\ Len(items') = Len(items) - 1
           /\ \A j \in 1 .. Len(items') :
                items'[j] = IF j <= selected THEN items[j] ELSE items[j + 1]
           /\ rows' = rows \ {items[selected + 1]}
           /\ selected' = IF Len(items) = 1 THEN None
                          ELSE IF selected > 0 THEN selected - 1 ELSE 0]_vars

\* ------------------------------------------------------------------ C5
\* C5: AddNote on the List screen with N notes creates one store row titled
\* "New note" with empty content, appends the returned note at index N, sets
\* the cursor to N, leaves both inputs empty and switches to Form.
C5_AddNote ==
    [][(current_screen = "List" /\ Applied("AddNote"))
        => /\ Cardinality(rows') = Cardinality(rows) + 1
           /\ \E new_note \in rows' \ rows :
                /\ rows' = rows \cup {new_note}
                /\ new_note.id \notin Ids(rows)
                /\ new_note.title = NewNoteTitle
                /\ new_note.content = <<>>
                /\ Len(items') = Len(items) + 1
                /\ \A j \in 1 .. Len(items) : items'[j] = items[j]
                /\ items'[Len(items) + 1] = new_note
           /\ selected' = Len(items)
           /\ title_input'.value = <<>>
           /\ content_input'.value = <<>>
           /\ current_screen' = "Form"]_vars

\* AddNote was applied to an empty collection after an earlier Form session had
\* moved the focus to the content input.
C5_Witness ==
    /\ pc = "render"
    /\ action = "AddNote"
    /\ current_screen = "Form"
    /\ Len(items) = 1
    /\ selected = 0
    /\ title_input.value = <<>>
    /\ content_input.value = <<>>
    /\ focused_input = "Content"

\* ------------------------------------------------------------------ C6
\* C6: after SelectNote on the note with id k and any edits and focus toggles,
\* Save makes the cached note at the selected index {k, title input, content
\* input}, makes the store row k identical to it, leaves every other note of
\* the cache and the store as it was and leaves the screen at Form.
C6_EditRoundTrip ==
    [][(current_screen = "Form" /\ session.via = "SelectNote" /\ session.id # None
          /\ Applied("Save"))
        => LET saved_note == Note(session.id, title_input.value, content_input.value)
           IN  /\ ValidIndex
               /\ items[selected + 1].id = session.id
               /\ selected' = selected
               /\ Len(items') = Len(items)
               /\ items'[selected + 1] = saved_note
               /\ \A j \in 1 .. Len(items) : j # selected + 1 => items'[j] = items[j]
               /\ saved_note \in rows'
               /\ {r \in rows' : r.id # session.id} = {r \in rows : r.id # session.id}
               /\ {r \in rows' : r.id = session.id} = {saved_note}
               /\ current_screen' = "Form"]_vars

\* Save was applied in a session SelectNote opened on the second of two notes,
\* after the title input was emptied.
C6_Witness ==
    /\ pc = "render"
    /\ action = "Save"
    /\ session.via = "SelectNote"
    /\ Len(items) = 2
    /\ selected = 1
    /\ items[2].title = <<>>
    /\ items[1].title # <<>>

\* ------------------------------------------------------------------ C7
\* A step of a Form session that is not a Save.
FormStepWithoutSave ==
    /\ pc = "read"
    /\ current_screen = "Form"
    /\ action' \in {"UpdateInput", "ToggleInput", "FormExit"}

\* C7 as stated: after entering Form and any edits and focus toggles without a
\* Save, Escape returns to List with the collection, the cursor and every
\* store row as they were before Form was entered, and no store call is made.
C7_EscapeDiscards ==
    [][/\ (current_screen = "Form" /\ ~session.saved /\ Applied("FormExit"))
          => /\ current_screen' = "List"
             /\ items' = session.before.items
             /\ selected' = session.before.selected
             /\ rows' = session.before.rows
       /\ FormStepWithoutSave => UNCHANGED db]_vars

\* C7 amended: Escape returns to List with the collection, the cursor and
\* every store row as they were once Form was entered, which for an entry by
\* AddNote is after the new row was inserted, pushed and selected; no store
\* call is made between the entry and the Escape.
C7_EscapeDiscardsSinceEntry ==
    [][/\ (current_screen = "Form" /\ ~session.saved /\ Applied("FormExit"))
          => /\ current_screen' = "List"
             /\ items' = session.entry.items
             /\ selected' = session.entry.selected
             /\ rows' = session.entry.rows
       /\ FormStepWithoutSave => UNCHANGED db]_vars

\* Escape was applied in a session without a Save whose title input no longer
\* holds the title of the selected note.
C7_Witness ==
    /\ pc = "render"
    /\ action = "FormExit"
    /\ current_screen = "List"
    /\ ~session.saved
    /\ session.via = "SelectNote"
    /\ ValidIndex
    /\ title_input.value # items[selected + 1].title
    /\ focused_input = "Content"

\* ------------------------------------------------------------------ C8
\* C8: from List the quit key moves to ExitConfirm with no other change; in
\* ExitConfirm the cancel key returns to List with collection, cursor, inputs,
\* focus and store unchanged, the confirm key ends the event loop, and every
\* other key changes nothing.
C8_ExitConfirmation ==
    [][/\ (pc = "read" /\ current_screen = "List" /\ action' = "Quit")
          => /\ current_screen' = "ExitConfirm"
             /\ pc' = "render"
             /\ UNCHANGED <<items, selected, title_input, content_input, focused_input,
                            should_quit, db>>
       /\ (pc = "read" /\ current_screen = "ExitConfirm")
          => /\ action' = "Cancel"
                => /\ current_screen' = "List"
                   /\ pc' = "render"
                   /\ UNCHANGED <<items, selected, title_input, content_input,
                                  focused_input, should_quit, db>>
             /\ action' = "Confirm" => (should_quit' /\ pc' = "done")
             /\ action' \notin {"Cancel", "Confirm"}
                => (pc' = "render" /\ UNCHANGED <<app, db>>)]_vars

\* The confirm key ended the loop of a session with notes.
C8_Witness ==
    /\ pc = "done"
    /\ should_quit
    /\ action = "Confirm"
    /\ current_screen = "ExitConfirm"
    /\ items # <<>>

\* ------------------------------------------------------------------ C9
\* C9: on every screen a key event of kind release produces no action and
\* leaves screen, collection, cursor, inputs, focus, quit flag and store
\* unchanged.
C9_ReleaseIgnored ==
    [][\A key \in KeyEvents :
         (pc = "read" /\ key.kind = "Release" /\ KeyStep(key))
            => (action' = "None" /\ UNCHANGED <<app, db>>)]_vars

\* ------------------------------------------------------------------ C10
\* C10: with an empty collection MoveDown and MoveUp leave the selection at
\* 'none', leave collection, screen and store unchanged and raise no error.
C10_EmptyNavigationNoOp ==
    [][(pc = "read" /\ current_screen = "List" /\ items = <<>> /\ selected = None
          /\ action' \in {"MoveDown", "MoveUp"})
        => /\ selected' = None
           /\ pc' = "render"
           /\ UNCHANGED <<items, current_screen, db>>]_vars

\* ------------------------------------------------------------------ C11
\* C11: every entry into Form leaves the inputs in one of two states: both
\* empty when entered by AddNote, or holding the title and the content of the
\* selected note when entered by SelectNote, so that text of an earlier Form
\* session is never visible in a later one.
C11_FormEntryInputs ==
    [][(pc = "read" /\ current_screen = "List" /\ current_screen' = "Form"
          /\ pc' = "render")
        => \/ /\ action' = "AddNote"
              /\ title_input'.value = <<>>
              /\ content_input'.value = <<>>
           \/ /\ action' = "SelectNote"
              /\ ValidIndex
              /\ title_input'.value = items[selected + 1].title
              /\ content_input'.value = items[selected + 1].content]_vars

\* ------------------------------------------------------------------ C12
\* C12: a render pass on any screen leaves the cursor, the collection, both
\* inputs, the focused field and the screen as they were.
C12_RenderReadOnly ==
    [][(pc = "render" /\ pc' = "read")
        => UNCHANGED <<selected, items, title_input, content_input, focused_input,
                       current_screen>>]_vars

\* ------------------------------------------------------------------ C13
\* C13: over any sequence of creates and deletes every created note gets an id
\* strictly greater than every id assigned before it, so no id is reused, not
\* even after the note with the largest id was deleted.
C13_MonotonicIds ==
    [][/\ \A r \in rows : r.id <= seq
       /\ seq' >= seq
       /\ Applied("AddNote")
          => \E new_note \in rows' \ rows :
                /\ new_note.id > seq
                /\ \A r \in rows : new_note.id > r.id
                /\ seq' = new_note.id
                /\ items'[Len(items')].id = new_note.id]_vars

\* A note was created with id 2 in a store that holds no other row: id 1 was
\* assigned before and its note deleted.
C13_Witness ==
    /\ pc = "render"
    /\ action = "AddNote"
    /\ Len(items) = 1
    /\ items[1].id = 2
    /\ rows = {Note(2, NewNoteTitle, <<>>)}

\* ------------------------------------------------------------------ C14
\* C14: whenever the screen is Form a note is selected, so SelectNote on an
\* empty collection does not enter Form and Save never runs with no selection.
C14_FormHasSelection == current_screen = "Form" => ValidIndex

\* ------------------------------------------------------------------ C15
\* C15: the id Save passes to update_note and the id DeleteNote passes to
\* delete_note is the id of a row present in the store.
C15_KnownIds ==
    [][(pc = "read" /\ action' \in {"Save", "DeleteNote"} /\ ValidIndex)
        => items[selected + 1].id \in Ids(rows)]_vars

\* DeleteNote was applied to the first of two notes: the note left is the one
\* the store still holds, and the next Save or DeleteNote passes its id.
C15_Witness ==
    /\ pc = "render"
    /\ action = "DeleteNote"
    /\ session = NoSession
    /\ Len(items) = 1
    /\ selected = 0
    /\ items[1].id = 2
    /\ Ids(rows) = {2}

\* ------------------------------------------------------------------ C16
\* C16: AddNote, Save and DeleteNote call the store before they touch the
\* cache; when the store call fails the session aborts with the collection and
\* the cursor unmodified, so the cache never reflects a mutation the store
\* rejected.
C16_StoreFirst ==
    [][/\ (pc = "read" /\ action' \in {"AddNote", "Save", "DeleteNote"}
             /\ UNCHANGED rows)
          => UNCHANGED <<items, selected>>
       /\ (pc = "read" /\ pc' = "panicked") => UNCHANGED <<items, selected, db>>
       /\ items' = GetAllNotes(rows')]_vars

\* The store rejected the update of a Save whose title input differs from the
\* title of the selected note: the session aborted and the cache kept the title.
C16_Witness ==
    /\ pc = "panicked"
    /\ action = "Save"
    /\ current_screen = "Form"
    /\ ValidIndex
    /\ title_input.value # items[selected + 1].title
    /\ items[selected + 1] \in rows

\* ------------------------------------------------------------------ C17
\* C17: in Form a key that is not the save chord, Tab or Escape goes only to
\* the focused input: the other input, the focus, the collection, the cursor,
\* the screen and the store are unchanged; the focus changes only on the
\* toggle key, which flips Title to Content and Content to Title.
C17_FocusedInputOnly ==
    [][/\ (pc = "read" /\ current_screen = "Form" /\ action' = "UpdateInput")
          => /\ UNCHANGED <<focused_input, items, selected, current_screen, db>>
             /\ focused_input = "Title" => UNCHANGED content_input
             /\ focused_input = "Content" => UNCHANGED title_input
       /\ focused_input' # focused_input
          => (pc = "read" /\ current_screen = "Form" /\ action' = "ToggleInput")
       /\ (pc = "read" /\ current_screen = "Form" /\ action' = "ToggleInput")
          => \/ focused_input = "Title" /\ focused_input' = "Content"
             \/ focused_input = "Content" /\ focused_input' = "Title"]_vars

\* A character was typed into the content input of a new note after the focus
\* was toggled: the title input is still empty.
C17_Witness ==
    /\ pc = "render"
    /\ action = "UpdateInput"
    /\ current_screen = "Form"
    /\ focused_input = "Content"
    /\ content_input.value = <<"a">>
    /\ title_input.value = <<>>
    /\ session.via = "AddNote"

\* ------------------------------------------------------------------ C18
\* C18: whenever SelectNote, Save or DeleteNote reads items[selected], the
\* selection is none (the access is skipped) or an index below the length of
\* the collection.
C18_IndexInBounds ==
    [][(pc = "read" /\ action' \in {"SelectNote", "Save", "DeleteNote"})
        => (selected = None \/ selected < Len(items))]_vars

\* ------------------------------------------------------------------ C19
\* C19: while the screen is Form the cursor and the length and ids of the
\* collection never change, so every Save of a Form session writes to the note
\* that was selected or created when Form was entered.
C19_FormSessionNote ==
    [][/\ (current_screen = "Form" /\ current_screen' = "Form")
          => /\ selected' = selected
             /\ Len(items') = Len(items)
             /\ \A i \in 1 .. Len(items) : items'[i].id = items[i].id
       /\ (current_screen = "Form" /\ Applied("Save") /\ selected # None)
          => /\ ValidIndex
             /\ items[selected + 1].id = session.id
             /\ items'[selected + 1].id = session.id
             /\ \A r \in rows' \ rows : r.id = session.id]_vars

\* The second note was created by AddNote, its title typed and saved: the
\* Save wrote to the note created at entry.
C19_Witness ==
    /\ pc = "render"
    /\ action = "Save"
    /\ session.via = "AddNote"
    /\ selected = 1
    /\ items[2].id = session.id
    /\ items[2].title = <<"a">>
    /\ items[2] \in rows

\* ------------------------------------------------------------------ C20
\* C20: the event loop ends only through confirmation: the quit flag becomes
\* true only on the confirm key in ExitConfirm, ExitConfirm is entered only
\* from List, no key read in List or Form ends the program, and the store is
\* not changed between entering ExitConfirm and the end.
C20_EndsOnlyByConfirm ==
    [][/\ should_quit' # should_quit
          => (pc = "read" /\ current_screen = "ExitConfirm" /\ action' = "Confirm"
              /\ should_quit')
       /\ (current_screen' = "ExitConfirm" /\ current_screen # "ExitConfirm")
          => (pc = "read" /\ current_screen = "List" /\ action' = "Quit")
       /\ (pc = "read" /\ current_screen \in {"List", "Form"})
          => \/ pc' \notin {"done", "panicked"}
             \/ \* the store rejected the call: the session aborts
                /\ pc' = "panicked"
                /\ action' \in {"AddNote", "Save", "DeleteNote"}
                /\ action' # "AddNote" => ValidIndex
       /\ current_screen = "ExitConfirm" => UNCHANGED db]_vars
====
